---- MODULE Spec2Model ----
(***************************************************************************)
(* SetupHalo (src/src/SetupHalo.cpp, MPI build): every rank scans the      *)
(* global column ids of its local rows, collects per neighbor rank the     *)
(* columns to receive and the rows to send, numbers the remote columns     *)
(* behind the local rows, fills the arrays ExchangeHalo uses and rewrites  *)
(* the column ids to local ids.                                            *)
(*                                                                         *)
(* Arrays are functions on 0..n-1, as in the source.  std::map and         *)
(* std::set are functions and sets; their iteration order is ascending     *)
(* key order (SetToArray).                                                 *)
(*                                                                         *)
(* The build modelled is the one without DEBUG: the assertions of lines    *)
(* 105-111 are the predicate DebugAssertions and stop nothing.  The keys   *)
(* of externalToLocalMap are global ids converted to local_int_t; the ids  *)
(* used here fit both integer types, whose widths are declared outside     *)
(* this file.                                                              *)
(***************************************************************************)
EXTENDS Integers, FiniteSets, TLC

\* geom.size: the number of ranks.
NumRanks == 3

\* Most undirected off-diagonal couplings in the generated matrix.
MaxEdges == 3

\* The global problem has one row more than there are ranks, so that every
\* rank owns a row and one rank owns two.
NumGlobalRows == NumRanks + 1

Ranks == 0 .. (NumRanks - 1)
GlobalIds == 0 .. (NumGlobalRows - 1)

\* Contents of an array element that has been allocated but not written.
Unset == -1

VARIABLES
  owner,               \* the partition: global row id -> owning rank
  pattern,             \* the global nonzero pattern, pairs <<row, col>>
  localNumberOfRows,   \* A.localNumberOfRows, per rank
  localToGlobalMap,    \* A.localToGlobalMap, per rank
  globalToLocalMap,    \* A.globalToLocalMap, per rank
  nonzerosInRow,       \* A.nonzerosInRow, per rank
  mtxIndG,             \* A.mtxIndG, per rank
  mtxIndL,             \* A.mtxIndL, per rank
  sendList,            \* local: rank -> (neighbor -> set of own global rows)
  receiveList,         \* local: rank -> (neighbor -> set of remote columns)
  externalToLocalMap,  \* local: rank -> (remote column -> local index)
  totalToBeSent,       \* local
  totalToBeReceived,   \* local
  plan,                \* local arrays neighbors, receiveLength, sendLength, elementsToSend
  A,                   \* the fields of A stored at the end of SetupHalo
  rewritten,           \* rows whose iteration of the parallel rewrite loop has run
  pc                   \* position of each rank inside SetupHalo

vars == <<owner, pattern, localNumberOfRows, localToGlobalMap, globalToLocalMap,
          nonzerosInRow, mtxIndG, mtxIndL, sendList, receiveList,
          externalToLocalMap, totalToBeSent, totalToBeReceived, plan, A,
          rewritten, pc>>

inputs == <<owner, pattern, localNumberOfRows, localToGlobalMap, globalToLocalMap,
            nonzerosInRow, mtxIndG>>

-----------------------------------------------------------------------------
\* Helpers for the containers.

EmptyMap == << >>

Min(S) == CHOOSE e \in S : \A x \in S : e <= x

Max(S) == CHOOSE e \in S : \A x \in S : e >= x

\* The elements of S from the smallest on, at the positions k, k+1, ...
RECURSIVE Ascending(_, _)
Ascending(S, k) ==
  IF S = {} THEN EmptyMap
  ELSE (k :> Min(S)) @@ Ascending(S \ {Min(S)}, k + 1)

\* The elements of S from the largest on, at the positions k, k+1, ...
RECURSIVE Descending(_, _)
Descending(S, k) ==
  IF S = {} THEN EmptyMap
  ELSE (k :> Max(S)) @@ Descending(S \ {Max(S)}, k + 1)

\* Iteration of a std::set<integer> (or of the keys of a std::map): ascending.
SetToArray(S) == Ascending(S, 0)

\* The same elements in descending order.
SetToArrayDesc(S) == Descending(S, 0)

Len(arr) == Cardinality(DOMAIN arr)

RangeOf(arr) == {arr[k] : k \in DOMAIN arr}

RECURSIVE SumOver(_, _)
SumOver(f, S) ==
  IF S = {} THEN 0
  ELSE LET k == CHOOSE x \in S : TRUE IN f[k] + SumOver(f, S \ {k})

\* m[k].insert(v) on a std::map<int, std::set<>>: operator[] creates the key.
MapSetInsert(m, k, v) ==
  IF k \in DOMAIN m THEN [m EXCEPT ![k] = @ \cup {v}]
  ELSE m @@ (k :> {v})

\* m[k] read through operator[] on a std::map<int, std::set<>>.
MapSetAt(m, k) == IF k \in DOMAIN m THEN m[k] ELSE {}

-----------------------------------------------------------------------------
\* The inputs of SetupHalo: geometry, partition and the generated matrix.

\* int getRankOfMatrixRow(geom, A, index): the rank that owns a global row.
getRankOfMatrixRow(index) == owner[index]

\* Block partitions: the ranks own consecutive ids in rank order, and rank
\* extra owns two rows.
BlockPartition(extra) ==
  [g \in GlobalIds |-> IF g <= extra THEN g ELSE g - 1]

\* The ids dealt out round-robin: rank 0 owns the first and the last id.
CyclicPartition == [g \in GlobalIds |-> g % NumRanks]

\* The partitions tried; in each every rank owns at least one row.
Partitions == {BlockPartition(r) : r \in Ranks} \cup {CyclicPartition}

Couplings == {e \in GlobalIds \X GlobalIds : e[1] < e[2]}

EdgeSets == {E \in SUBSET Couplings : Cardinality(E) <= MaxEdges}

Diagonal == {<<g, g>> : g \in GlobalIds}

\* Both entries of every coupling, and the diagonal.
SymmetricPattern(E) ==
  Diagonal \cup E \cup {<<e[2], e[1]>> : e \in E}

\* The coupling of E with the smallest row id (and then column id).
FirstCoupling(E) ==
  CHOOSE e \in E : \A f \in E : e[1] < f[1] \/ (e[1] = f[1] /\ e[2] <= f[2])

\* The structurally symmetric pattern of E, and the two patterns that lack
\* one of the two entries of E's first coupling.
PatternsOf(E) ==
  IF E = {} THEN {SymmetricPattern(E)}
  ELSE LET e == FirstCoupling(E)
       IN  {SymmetricPattern(E), SymmetricPattern(E) \ {e},
            SymmetricPattern(E) \ {<<e[2], e[1]>>}}

\* The local numbering of the rows each rank holds: by ascending or by
\* descending global id.
LocalMap(held, descending) ==
  [p \in Ranks |-> IF descending THEN SetToArrayDesc(held[p]) ELSE SetToArray(held[p])]

\* The column ids of global row g, stored ascending or descending.
RowArray(pat, g, descending) ==
  LET cols == {e[2] : e \in {x \in pat : x[1] = g}}
  IN  IF descending THEN SetToArrayDesc(cols) ELSE SetToArray(cols)

InitWith(ow, pat, l2g, descending) ==
  /\ owner = ow
  /\ pattern = pat
  /\ localToGlobalMap = l2g
  /\ localNumberOfRows = [p \in Ranks |-> Len(l2g[p])]
  /\ globalToLocalMap =
       [p \in Ranks |->
          [g \in RangeOf(l2g[p]) |-> CHOOSE i \in DOMAIN l2g[p] : l2g[p][i] = g]]
  /\ mtxIndG =
       [p \in Ranks |-> [i \in DOMAIN l2g[p] |-> RowArray(pat, l2g[p][i], descending)]]
  /\ nonzerosInRow =
       [p \in Ranks |-> [i \in DOMAIN l2g[p] |-> Len(RowArray(pat, l2g[p][i], descending))]]
  /\ mtxIndL =
       [p \in Ranks |->
          [i \in DOMAIN l2g[p] |->
             [j \in DOMAIN RowArray(pat, l2g[p][i], descending) |-> Unset]]]
  /\ sendList = [p \in Ranks |-> EmptyMap]
  /\ receiveList = [p \in Ranks |-> EmptyMap]
  /\ externalToLocalMap = [p \in Ranks |-> EmptyMap]
  /\ totalToBeSent = [p \in Ranks |-> 0]
  /\ totalToBeReceived = [p \in Ranks |-> 0]
  /\ plan = [p \in Ranks |->
               [neighbors |-> EmptyMap, receiveLength |-> EmptyMap,
                sendLength |-> EmptyMap, elementsToSend |-> EmptyMap]]
  /\ A = [p \in Ranks |->
            [numberOfExternalValues |-> Unset, localNumberOfColumns |-> Unset,
             numberOfSendNeighbors |-> Unset, totalToBeSent |-> Unset,
             elementsToSend |-> EmptyMap, neighbors |-> EmptyMap,
             receiveLength |-> EmptyMap, sendLength |-> EmptyMap]]
  /\ rewritten = [p \in Ranks |-> {}]
  /\ pc = [p \in Ranks |-> "scan"]

Owned(ow, p) == {g \in GlobalIds : ow[g] = p}

\* Valid input: each rank holds exactly the rows the partition gives it.  The
\* rows are numbered and the column ids of a row stored either both by
\* ascending or both by descending global id.
Init ==
  \E ow \in Partitions, E \in EdgeSets, descending \in BOOLEAN :
    \E pat \in PatternsOf(E) :
      InitWith(ow, pat, LocalMap([p \in Ranks |-> Owned(ow, p)], descending), descending)

\* Malformed partition: getRankOfMatrixRow still names a rank for the row
\* lost, but no rank holds that row, so its owner's globalToLocalMap lacks it.
InitMalformed ==
  \E ow \in Partitions, E \in EdgeSets, descending \in BOOLEAN, lost \in GlobalIds :
    \E pat \in PatternsOf(E) :
      InitWith(ow, pat,
               LocalMap([p \in Ranks |-> Owned(ow, p) \ {lost}], descending), descending)

-----------------------------------------------------------------------------
\* Lines 76-90: the scan of the global column ids.

\* ScanEntry with the column id, not the row id, put into sendList.
ScanEntrySendsColumn(p, lists, i, j) ==
  LET curIndex == mtxIndG[p][i][j]
      rankIdOfColumnEntry == getRankOfMatrixRow(curIndex)
  IN  IF p # rankIdOfColumnEntry
      THEN [receive |-> MapSetInsert(lists.receive, rankIdOfColumnEntry, curIndex),
            send |-> MapSetInsert(lists.send, rankIdOfColumnEntry, curIndex)]
      ELSE lists

\* Lines 79-88: one nonzero.  lists is <<sendList, receiveList>> so far.
ScanEntry(p, lists, i, j) ==
  LET currentGlobalRow == localToGlobalMap[p][i]
      curIndex == mtxIndG[p][i][j]
      rankIdOfColumnEntry == getRankOfMatrixRow(curIndex)
  IN  IF p # rankIdOfColumnEntry
      THEN [receive |-> MapSetInsert(lists.receive, rankIdOfColumnEntry, curIndex),
            send |-> MapSetInsert(lists.send, rankIdOfColumnEntry, currentGlobalRow)]
      ELSE lists

\* Line 78: the nonzeros j, j+1, ... of row i.
RECURSIVE ScanRow(_, _, _, _)
ScanRow(p, lists, i, j) ==
  IF j < nonzerosInRow[p][i]
  THEN ScanRow(p, ScanEntry(p, lists, i, j), i, j + 1)
  ELSE lists

\* Line 76: the rows i, i+1, ...
RECURSIVE ScanRows(_, _, _)
ScanRows(p, lists, i) ==
  IF i < localNumberOfRows[p]
  THEN ScanRows(p, ScanRow(p, lists, i, 0), i + 1)
  ELSE lists

\* The ranks are separate processes and SetupHalo sends no message: no step
\* of one rank reads or writes anything of another, so the steps of different
\* ranks commute.  The calls are therefore run one rank after the other.
MayStart(p) == \A q \in Ranks : q < p => pc[q] = "done"

Scan(p) ==
  /\ pc[p] = "scan"
  /\ MayStart(p)
  /\ LET lists == ScanRows(p, [send |-> EmptyMap, receive |-> EmptyMap], 0)
     IN  /\ sendList' = [sendList EXCEPT ![p] = lists.send]
         /\ receiveList' = [receiveList EXCEPT ![p] = lists.receive]
  /\ pc' = [pc EXCEPT ![p] = "count"]
  /\ UNCHANGED <<inputs, mtxIndL, externalToLocalMap, totalToBeSent,
                 totalToBeReceived, plan, A, rewritten>>

-----------------------------------------------------------------------------
\* Lines 92-100: the number of entries to send and to receive.

\* TotalSize that counts one entry for each neighbor.
TotalSizeOnePerNeighbor(m) == Cardinality(DOMAIN m)

\* The sum of the sizes of the sets of a std::map<int, std::set<>>.
TotalSize(m) == SumOver([k \in DOMAIN m |-> Cardinality(m[k])], DOMAIN m)

Count(p) ==
  /\ pc[p] = "count"
  /\ totalToBeSent' = [totalToBeSent EXCEPT ![p] = TotalSize(sendList[p])]
  /\ totalToBeReceived' = [totalToBeReceived EXCEPT ![p] = TotalSize(receiveList[p])]
  /\ pc' = [pc EXCEPT ![p] = "build"]
  /\ UNCHANGED <<inputs, mtxIndL, sendList, receiveList, externalToLocalMap,
                 plan, A, rewritten>>

\* Lines 105-111: the assertions of a DEBUG build, on the state after Count.
DebugAssertions(p) ==
  /\ totalToBeSent[p] = totalToBeReceived[p]
  /\ Cardinality(DOMAIN sendList[p]) = Cardinality(DOMAIN receiveList[p])
  /\ \A curNeighbor \in DOMAIN receiveList[p] :
       /\ curNeighbor \in DOMAIN sendList[p]
       /\ Cardinality(MapSetAt(sendList[p], curNeighbor))
            = Cardinality(MapSetAt(receiveList[p], curNeighbor))

-----------------------------------------------------------------------------
\* Lines 114-135: the arrays and lists ExchangeHalo needs.

\* An array from new T[n]: n elements, none written.
NewArray(n) == [k \in 0 .. (n - 1) |-> Unset]

\* IterationOrder from the largest key down.
IterationOrderDescending(S) == SetToArrayDesc(S)

\* Lines 123 and 128: the iteration order of a map's keys and of a set.
IterationOrder(S) == SetToArray(S)

\* SendOrder from the largest row id down.
SendOrderDescending(S) == SetToArrayDesc(S)

\* Line 131: the iteration order of sendList[neighborId].
SendOrder(S) == SetToArray(S)

\* ExternalIndex with the entry counter started anew for every neighbor.
ExternalIndexPerNeighbor(numRows, receiveEntryCount, k) == numRows + k

\* Line 129: the local index of the k-th column of the current neighbor.
ExternalIndex(numRows, receiveEntryCount, k) == numRows + receiveEntryCount + k

\* A.globalToLocalMap[g]; missing is what the lookup gives for an id that is
\* not in the map.
GlobalToLocal(p, g, missing) ==
  IF g \in DOMAIN globalToLocalMap[p] THEN globalToLocalMap[p][g] ELSE missing

\* SendElement that stores the global id.
SendElementGlobalId(p, g) == g

\* Line 133: the entry of elementsToSend for the own global row g.  The rows
\* of sendList come from localToGlobalMap, so they are in globalToLocalMap.
SendElement(p, g) == GlobalToLocal(p, g, 0)

\* Lines 124-134: the body of the loop for the neighbor at position
\* neighborCount; b holds the arrays, the map and the two entry counters.
BuildNeighbor(p, b, neighborCount, neighborId) ==
  LET recv == IterationOrder(MapSetAt(receiveList[p], neighborId))
      send == SendOrder(MapSetAt(sendList[p], neighborId))
      assigned == [c \in RangeOf(recv) |->
                     ExternalIndex(localNumberOfRows[p], b.receiveEntryCount,
                                   CHOOSE k \in DOMAIN recv : recv[k] = c)]
  IN  [neighbors |-> [b.neighbors EXCEPT ![neighborCount] = neighborId],
       receiveLength |-> [b.receiveLength EXCEPT ![neighborCount] = Len(recv)],
       sendLength |-> [b.sendLength EXCEPT ![neighborCount] = Len(send)],
       externalToLocalMap |-> assigned @@ b.externalToLocalMap,
       elementsToSend |->
         [e \in DOMAIN b.elementsToSend |->
            IF e - b.sendEntryCount \in DOMAIN send
            THEN SendElement(p, send[e - b.sendEntryCount])
            ELSE b.elementsToSend[e]],
       receiveEntryCount |-> b.receiveEntryCount + Len(recv),
       sendEntryCount |-> b.sendEntryCount + Len(send)]

\* BuildFrom that leaves the loop one neighbor early.
RECURSIVE BuildFromStopsEarly(_, _, _)
BuildFromStopsEarly(p, b, neighborCount) ==
  LET order == IterationOrder(DOMAIN receiveList[p])
  IN  IF neighborCount < Len(order) - 1
      THEN BuildFromStopsEarly(p, BuildNeighbor(p, b, neighborCount, order[neighborCount]),
                               neighborCount + 1)
      ELSE b

\* Line 123: the neighbors at positions neighborCount, neighborCount+1, ...
RECURSIVE BuildFrom(_, _, _)
BuildFrom(p, b, neighborCount) ==
  LET order == IterationOrder(DOMAIN receiveList[p])
  IN  IF neighborCount < Len(order)
      THEN BuildFrom(p, BuildNeighbor(p, b, neighborCount, order[neighborCount]),
                     neighborCount + 1)
      ELSE b

Build(p) ==
  /\ pc[p] = "build"
  /\ LET b == BuildFrom(p,
                [neighbors |-> NewArray(Cardinality(DOMAIN sendList[p])),
                 receiveLength |-> NewArray(Cardinality(DOMAIN receiveList[p])),
                 sendLength |-> NewArray(Cardinality(DOMAIN sendList[p])),
                 externalToLocalMap |-> EmptyMap,
                 elementsToSend |-> NewArray(totalToBeSent[p]),
                 receiveEntryCount |-> 0,
                 sendEntryCount |-> 0], 0)
     IN  /\ plan' = [plan EXCEPT ![p] =
                       [neighbors |-> b.neighbors, receiveLength |-> b.receiveLength,
                        sendLength |-> b.sendLength, elementsToSend |-> b.elementsToSend]]
         /\ externalToLocalMap' = [externalToLocalMap EXCEPT ![p] = b.externalToLocalMap]
  /\ pc' = [pc EXCEPT ![p] = "rewrite"]
  /\ UNCHANGED <<inputs, mtxIndL, sendList, receiveList, totalToBeSent,
                 totalToBeReceived, A, rewritten>>

-----------------------------------------------------------------------------
\* Lines 137-152: the matrix indices become local ids.  The loop over the
\* rows is an OpenMP parallel for: every iteration runs once, in any order.

\* externalToLocalMap[curIndex] through operator[]: a missing key is created
\* with the value 0.
ExternalToLocal(p, curIndex) ==
  IF curIndex \in DOMAIN externalToLocalMap[p] THEN externalToLocalMap[p][curIndex] ELSE 0

\* RewriteEntry that copies the global id, as the build without MPI does.
RewriteEntryCopiesGlobal(p, i, j, missing) == mtxIndG[p][i][j]

\* Lines 143-150: the value written to mtxIndL[i][j].
RewriteEntry(p, i, j, missing) ==
  LET curIndex == mtxIndG[p][i][j]
      rankIdOfColumnEntry == getRankOfMatrixRow(curIndex)
  IN  IF p = rankIdOfColumnEntry
      THEN GlobalToLocal(p, curIndex, missing)
      ELSE ExternalToLocal(p, curIndex)

\* The keys operator[] creates in externalToLocalMap while row i is rewritten.
CreatedKeys(p, i) ==
  {mtxIndG[p][i][j] : j \in 0 .. (nonzerosInRow[p][i] - 1)}
    \cap {c \in GlobalIds : getRankOfMatrixRow(c) # p /\ c \notin DOMAIN externalToLocalMap[p]}

\* The ids row i looks up in globalToLocalMap although the map lacks them.
MissingKeys(p, i) ==
  {mtxIndG[p][i][j] : j \in 0 .. (nonzerosInRow[p][i] - 1)}
    \cap {c \in GlobalIds : getRankOfMatrixRow(c) = p /\ c \notin DOMAIN globalToLocalMap[p]}

\* What a lookup of an id that globalToLocalMap lacks may give: 0 from an
\* associative container, anything from an array or from racing insertions.
MissingValues(p, i) ==
  IF MissingKeys(p, i) = {} THEN {0} ELSE 0 .. localNumberOfRows[p]

RewriteRow(p, i) ==
  /\ pc[p] = "rewrite"
  /\ i \in DOMAIN mtxIndG[p]
  /\ i \notin rewritten[p]
  /\ \E missing \in MissingValues(p, i) :
       mtxIndL' = [mtxIndL EXCEPT ![p][i] =
                     [j \in 0 .. (nonzerosInRow[p][i] - 1) |-> RewriteEntry(p, i, j, missing)]]
  /\ externalToLocalMap' =
       [externalToLocalMap EXCEPT ![p] = [c \in CreatedKeys(p, i) |-> 0] @@ @]
  /\ rewritten' = [rewritten EXCEPT ![p] = @ \cup {i}]
  /\ UNCHANGED <<inputs, sendList, receiveList, totalToBeSent, totalToBeReceived,
                 plan, A, pc>>

-----------------------------------------------------------------------------
\* Lines 154-163: the results go into the matrix struct.

Store(p) ==
  /\ pc[p] = "rewrite"
  /\ rewritten[p] = DOMAIN mtxIndG[p]
  /\ A' = [A EXCEPT ![p] =
             [numberOfExternalValues |-> Cardinality(DOMAIN externalToLocalMap[p]),
              localNumberOfColumns |->
                localNumberOfRows[p] + Cardinality(DOMAIN externalToLocalMap[p]),
              numberOfSendNeighbors |-> Cardinality(DOMAIN sendList[p]),
              totalToBeSent |-> totalToBeSent[p],
              elementsToSend |-> plan[p].elementsToSend,
              neighbors |-> plan[p].neighbors,
              receiveLength |-> plan[p].receiveLength,
              sendLength |-> plan[p].sendLength]]
  /\ pc' = [pc EXCEPT ![p] = "done"]
  /\ UNCHANGED <<inputs, mtxIndL, sendList, receiveList, externalToLocalMap,
                 totalToBeSent, totalToBeReceived, plan, rewritten>>

-----------------------------------------------------------------------------

Next ==
  \E p \in Ranks :
    \/ Scan(p)
    \/ Count(p)
    \/ Build(p)
    \/ \E i \in DOMAIN mtxIndG[p] : RewriteRow(p, i)
    \/ Store(p)

Spec == Init /\ [][Next]_vars

SpecMalformed == InitMalformed /\ [][Next]_vars

-----------------------------------------------------------------------------
\* What the partition and the pattern say, independent of the order in which
\* rows and columns are stored.

Finished(p) == pc[p] = "done"

\* The global rows rank p holds.
Rows(p) == DOMAIN globalToLocalMap[p]

\* The entries of the rows of rank p.
EntriesOf(p) == LET rows == Rows(p) IN {e \in pattern : e[1] \in rows}

\* The distinct columns the rows of p reference and another rank owns.
RemoteColumns(p) == {e[2] : e \in {x \in EntriesOf(p) : owner[x[2]] # p}}

\* The ranks that own a column the rows of p reference.
NeighborRanks(p) == {owner[c] : c \in RemoteColumns(p)}

\* The columns rank q owns that the rows of p reference.
ColumnsFrom(p, q) == {e[2] : e \in {x \in EntriesOf(p) : owner[x[2]] = q}}

\* The rows of p that reference a column of rank q.
RowsTo(p, q) == {e[1] : e \in {x \in EntriesOf(p) : owner[x[2]] = q}}

\* The local index of the row of p with global id g.
LocalIndexOf(p, g) == CHOOSE i \in DOMAIN localToGlobalMap[p] : localToGlobalMap[p][i] = g

\* The position of value v in an array.
PositionOf(arr, v) == CHOOSE k \in DOMAIN arr : arr[k] = v

\* The sum of the first n entries of an array.
PrefixSum(arr, n) == SumOver(arr, {k \in DOMAIN arr : k < n})

\* The pattern is structurally symmetric.
IsSymmetric == \A e \in pattern : <<e[2], e[1]>> \in pattern

\* The entries that couple rows of different ranks.
CrossEntries == {e \in pattern : owner[e[1]] # owner[e[2]]}

Injective(f) == \A a, b \in DOMAIN f : f[a] = f[b] => a = b

-----------------------------------------------------------------------------
\* C1: after SetupHalo, externalToLocalMap is a bijection between the distinct
\* remote columns the local rows reference and the indices localNumberOfRows
\* .. localNumberOfRows + numberOfExternalValues - 1: one index per column, no
\* index twice, no gap, also with several neighbors.
C1_ExternalIndicesBijective ==
  \A p \in Ranks :
    Finished(p) =>
      /\ DOMAIN externalToLocalMap[p] = RemoteColumns(p)
      /\ Injective(externalToLocalMap[p])
      /\ RangeOf(externalToLocalMap[p])
           = localNumberOfRows[p]
               .. (localNumberOfRows[p] + A[p].numberOfExternalValues - 1)

\* A rank has finished with two neighbors, one of them owning two of the
\* columns it needs.
C1_Witness ==
  \E p \in Ranks :
    /\ Finished(p)
    /\ Cardinality(NeighborRanks(p)) >= 2
    /\ A[p].numberOfExternalValues >= 3

\* C2: for a structurally symmetric pattern, once every rank has run
\* SetupHalo, rank a lists b as a neighbor exactly when b lists a, and the
\* sendLength a records for b is the receiveLength b records for a.
C2_SendMatchesPeerReceive ==
  (IsSymmetric /\ \A p \in Ranks : Finished(p)) =>
    \A a, b \in Ranks :
      /\ (b \in RangeOf(A[a].neighbors)) <=> (a \in RangeOf(A[b].neighbors))
      /\ (b \in RangeOf(A[a].neighbors)) =>
           A[a].sendLength[PositionOf(A[a].neighbors, b)]
             = A[b].receiveLength[PositionOf(A[b].neighbors, a)]

\* All ranks have finished on a symmetric pattern in which one rank sends two
\* rows to a peer and receives one column from it.
C2_Witness ==
  /\ IsSymmetric
  /\ \A p \in Ranks : Finished(p)
  /\ \E a, b \in Ranks :
       /\ b \in RangeOf(A[a].neighbors)
       /\ A[a].sendLength[PositionOf(A[a].neighbors, b)] = 2
       /\ A[a].receiveLength[PositionOf(A[a].neighbors, b)] = 1

\* The index behind the local rows that column c of another rank gets, remote
\* being the remote columns of p: the columns are numbered by owner rank and
\* then by global id.
ExpectedExternalIndex(p, remote, c) ==
  localNumberOfRows[p]
    + Cardinality({d \in remote :
                     owner[d] < owner[c] \/ (owner[d] = owner[c] /\ d < c)})

\* The local id a reference of rank p to global column c becomes.
ExpectedLocalId(p, remote, c) ==
  IF owner[c] = p THEN LocalIndexOf(p, c) ELSE ExpectedExternalIndex(p, remote, c)

\* C3: after SetupHalo every mtxIndL[i][j] lies in [0, localNumberOfColumns)
\* with localNumberOfColumns = localNumberOfRows + numberOfExternalValues; it
\* is the local row index of a column this rank owns (below
\* localNumberOfRows) and the external index of the column otherwise (from
\* localNumberOfRows on).  mtxIndG and nonzerosInRow still hold the pattern.
C3_IndicesRewritten ==
  \A p \in Ranks :
    Finished(p) =>
      /\ A[p].localNumberOfColumns = localNumberOfRows[p] + A[p].numberOfExternalValues
      /\ \A i \in DOMAIN mtxIndG[p] :
           LET remote == RemoteColumns(p) IN
           /\ RangeOf(mtxIndG[p][i])
                = {e[2] : e \in {x \in pattern : x[1] = localToGlobalMap[p][i]}}
           /\ Injective(mtxIndG[p][i])
           /\ nonzerosInRow[p][i] = Len(mtxIndG[p][i])
           /\ DOMAIN mtxIndL[p][i] = 0 .. (nonzerosInRow[p][i] - 1)
           /\ \A j \in DOMAIN mtxIndL[p][i] :
                /\ mtxIndL[p][i][j] \in 0 .. (A[p].localNumberOfColumns - 1)
                /\ mtxIndL[p][i][j] = ExpectedLocalId(p, remote, mtxIndG[p][i][j])
                /\ (owner[mtxIndG[p][i][j]] = p) <=> (mtxIndL[p][i][j] < localNumberOfRows[p])

\* A finished rank with two rows, one of which references the other row of
\* the rank and a column of another rank.
C3_Witness ==
  \E p \in Ranks :
    /\ Finished(p)
    /\ \E i \in DOMAIN mtxIndG[p] :
         /\ \E j \in DOMAIN mtxIndG[p][i] :
              owner[mtxIndG[p][i][j]] = p /\ mtxIndL[p][i][j] # i
         /\ \E j \in DOMAIN mtxIndG[p][i] : owner[mtxIndG[p][i][j]] # p

\* C4: after SetupHalo, neighbors[0 .. numberOfSendNeighbors) is strictly
\* ascending by rank, never holds the own rank, and holds exactly the ranks
\* that own a referenced column, whatever the order of rows and columns.
C4_NeighborsAscending ==
  \A p \in Ranks :
    Finished(p) =>
      /\ DOMAIN A[p].neighbors = 0 .. (A[p].numberOfSendNeighbors - 1)
      /\ \A k, l \in DOMAIN A[p].neighbors :
           k < l => A[p].neighbors[k] < A[p].neighbors[l]
      /\ p \notin RangeOf(A[p].neighbors)
      /\ RangeOf(A[p].neighbors) = NeighborRanks(p)

\* A finished rank whose first stored remote column belongs to the neighbor
\* of higher rank: the scan met its two neighbors in descending rank order.
C4_Witness ==
  \E p \in Ranks :
    /\ Finished(p)
    /\ Cardinality(NeighborRanks(p)) = 2
    /\ \E i \in DOMAIN mtxIndG[p] :
         \E j, l \in DOMAIN mtxIndG[p][i] :
           /\ j < l
           /\ owner[mtxIndG[p][i][j]] # p
           /\ owner[mtxIndG[p][i][l]] # p
           /\ owner[mtxIndG[p][i][j]] > owner[mtxIndG[p][i][l]]

\* Ranks P and Q are coupled by the single symmetric pair (r,s), (s,r), and
\* nothing else couples rows of different ranks.
SingleBoundaryEdge(P, Q, r, s) ==
  /\ P # Q
  /\ owner[r] = P
  /\ owner[s] = Q
  /\ <<r, s>> \in pattern
  /\ CrossEntries = {<<r, s>>, <<s, r>>}

\* C5: when the only references across ranks are one symmetric pair between
\* row r of P and row s of Q, SetupHalo on P gives the one neighbor Q with
\* receiveLength 1 and sendLength 1, numberOfExternalValues 1, totalToBeSent 1
\* and elementsToSend = [local index of r].
C5_SingleBoundaryEdge ==
  \A P \in Ranks :
    Finished(P) =>
      \A Q \in Ranks :
        \A r, s \in GlobalIds :
          SingleBoundaryEdge(P, Q, r, s) =>
            /\ A[P].numberOfSendNeighbors = 1
            /\ A[P].neighbors = (0 :> Q)
            /\ A[P].receiveLength = (0 :> 1)
            /\ A[P].sendLength = (0 :> 1)
            /\ A[P].numberOfExternalValues = 1
            /\ A[P].totalToBeSent = 1
            /\ A[P].elementsToSend = (0 :> LocalIndexOf(P, r))

\* P has finished on a single boundary edge whose row r is not numbered like
\* its global id.
C5_Witness ==
  \E P, Q \in Ranks :
    \E r, s \in GlobalIds :
      /\ SingleBoundaryEdge(P, Q, r, s)
      /\ Finished(P)
      /\ LocalIndexOf(P, r) # r
      /\ localNumberOfRows[P] = 2

\* Rank p looks up, as a column of its own, an id its globalToLocalMap lacks.
MalformedFor(p) ==
  \E i \in DOMAIN mtxIndG[p] : MissingKeys(p, i) # {}

\* C6: when getRankOfMatrixRow reports the own rank for a column that is not
\* in globalToLocalMap, SetupHalo does not complete with a communication plan
\* and rewritten indices.
C6_MalformedPartitionAborts ==
  \A p \in Ranks : MalformedFor(p) => ~Finished(p)

\* C7: while the rewrite loop of a rank runs, externalToLocalMap and the plan
\* do not change (no lookup creates a key), an iteration writes the row of
\* mtxIndL it is run for and no other, every row written holds the ids the
\* sequential order gives, and numberOfExternalValues stored afterwards is the
\* number of distinct remote columns.
C7_RewriteTouchesOwnRowOnly ==
  [][\A p \in Ranks :
       pc[p] = "rewrite" =>
         /\ externalToLocalMap'[p] = externalToLocalMap[p]
         /\ plan'[p] = plan[p]
         /\ sendList'[p] = sendList[p]
         /\ receiveList'[p] = receiveList[p]
         /\ \A i \in DOMAIN mtxIndL[p] :
              LET remote == RemoteColumns(p) IN
              /\ CreatedKeys(p, i) = {}
              /\ MissingKeys(p, i) = {}
              /\ i \notin (rewritten'[p] \ rewritten[p]) => mtxIndL'[p][i] = mtxIndL[p][i]
              /\ i \in rewritten'[p] =>
                   mtxIndL'[p][i] =
                     [j \in DOMAIN mtxIndG[p][i] |->
                        ExpectedLocalId(p, remote, mtxIndG[p][i][j])]
         /\ pc'[p] = "done" => A'[p].numberOfExternalValues = Cardinality(RemoteColumns(p))
  ]_vars

\* The rewrite loop of a rank has run the iteration of its second row before
\* that of its first, and the second row references a remote column.
C7_Witness ==
  \E p \in Ranks :
    /\ pc[p] = "rewrite"
    /\ rewritten[p] = {1}
    /\ localNumberOfRows[p] = 2
    /\ \E j \in DOMAIN mtxIndG[p][1] : owner[mtxIndG[p][1][j]] # p

\* C8: for every structurally symmetric pattern the assertions of the DEBUG
\* build hold on each rank: totalToBeSent = totalToBeReceived, as many send-to
\* as receive-from neighbors, each receive-from neighbor is a send-to
\* neighbor, and per neighbor the send set is as large as the receive set.
C8_DebugAssertionsHold ==
  IsSymmetric =>
    \A p \in Ranks : pc[p] \in {"build", "rewrite", "done"} => DebugAssertions(p)

\* The part of elementsToSend for the neighbor at position k.
SendSegment(p, k) ==
  [e \in 0 .. (A[p].sendLength[k] - 1) |->
     A[p].elementsToSend[PrefixSum(A[p].sendLength, k) + e]]

\* C9: after SetupHalo, elementsToSend has totalToBeSent entries, the sum of
\* the sendLength; the segment of neighbors[k] starts behind the segments of
\* the neighbors before it and holds the local indices, each in
\* [0, localNumberOfRows), of the distinct rows that reference a column of
\* neighbors[k], by ascending global id; receiveLength[k] is the number of
\* distinct columns of neighbors[k] that are referenced.
C9_ElementsToSendSegments ==
  \A p \in Ranks :
    Finished(p) =>
      /\ DOMAIN A[p].elementsToSend = 0 .. (A[p].totalToBeSent - 1)
      /\ A[p].totalToBeSent = SumOver(A[p].sendLength, DOMAIN A[p].sendLength)
      /\ DOMAIN A[p].sendLength = DOMAIN A[p].neighbors
      /\ DOMAIN A[p].receiveLength = DOMAIN A[p].neighbors
      /\ \A k \in DOMAIN A[p].neighbors :
           LET rows == SetToArray(RowsTo(p, A[p].neighbors[k]))
           IN  /\ A[p].sendLength[k] = Len(rows)
               /\ SendSegment(p, k) = [e \in DOMAIN rows |-> LocalIndexOf(p, rows[e])]
               /\ \A e \in DOMAIN rows :
                    SendSegment(p, k)[e] \in 0 .. (localNumberOfRows[p] - 1)
               /\ A[p].receiveLength[k]
                    = Cardinality(ColumnsFrom(p, A[p].neighbors[k]))

\* A finished rank sends two rows to its first neighbor and one to its second.
C9_Witness ==
  \E p \in Ranks :
    /\ Finished(p)
    /\ DOMAIN A[p].neighbors = {0, 1}
    /\ A[p].sendLength[0] = 2
    /\ A[p].sendLength[1] >= 1

\* C10: for a structurally symmetric pattern and neighbors a and b that have
\* both run SetupHalo, the entry at position k of a's segment for b is the
\* local index of the global row that b numbered with the k-th index of its
\* block for a, and b's rewritten column ids use that index for the row.
C10_PeersAgreeElementwise ==
  IsSymmetric =>
    \A a, b \in Ranks :
      (Finished(a) /\ Finished(b) /\ b \in RangeOf(A[a].neighbors)) =>
        LET ka == PositionOf(A[a].neighbors, b)
            kb == PositionOf(A[b].neighbors, a)
            slot(k) == localNumberOfRows[b] + PrefixSum(A[b].receiveLength, kb) + k
        IN  \A k \in DOMAIN SendSegment(a, ka) :
              LET g == localToGlobalMap[a][SendSegment(a, ka)[k]]
              IN  /\ g \in DOMAIN externalToLocalMap[b]
                  /\ externalToLocalMap[b][g] = slot(k)
                  /\ \A i \in DOMAIN mtxIndG[b] :
                       \A j \in DOMAIN mtxIndG[b][i] :
                         mtxIndG[b][i][j] = g => mtxIndL[b][i][j] = slot(k)

\* Two finished neighbors on a symmetric pattern: a sends two rows to b, which
\* a numbers against their global ids, and b has a neighbor of lower rank
\* than a.
C10_Witness ==
  /\ IsSymmetric
  /\ \E a, b \in Ranks :
       /\ Finished(a)
       /\ Finished(b)
       /\ b \in RangeOf(A[a].neighbors)
       /\ A[a].sendLength[PositionOf(A[a].neighbors, b)] = 2
       /\ localToGlobalMap[a][0] > localToGlobalMap[a][1]
       /\ PositionOf(A[b].neighbors, a) = 1

====
